---- MODULE Spec2Model ----
\* A model of scripts/get-common-values.py: main() walks the configured keys
\* in order and calls get_common_values for each, which pages through the
\* taginfo service, filters every page with check_include and returns the
\* candidate list; main then prints the lists or writes them to the database.
EXTENDS Integers, Sequences, FiniteSets, TLC

\* ---------------------------------------------------------------- bounds
MaxLen == 3      \* most records the service holds for one key
MaxKeys == 2     \* most keys in the configuration file
PageSize == 2    \* settings["max_page"]: the rp= parameter of the request

\* ---------------------------------------------------------------- values
\* A value string is the sequence of its characters, so that strip() and
\* "';' in tag" are computed on the characters.
Whitespace == {" "}
Yes  == <<"y">>
No   == <<"n">>
Semi == <<"a", ";", "b">>
Blank == <<" ">>
Values == {Yes, No, Semi, Blank}
Counts == {1, 2}
MinCounts == {2}

Records == [value : Values, count : Counts]

\* A key's configuration: "min_count" may be missing from the mapping (the
\* empty option), "exclusions" defaults to the empty list.
KeySpecs == [min_count : {{}} \cup {{m} : m \in MinCounts},
             exclusions : {{}, {No}}]
CommonExclusionSets == {{}, {Semi}}

Range(s) == {s[i] : i \in 1..Len(s)}

\* The service lists each value of a key once.
DistinctValues(d) == \A i, j \in 1..Len(d) : d[i].value = d[j].value => i = j

ServiceData == {d \in UNION {[1..n -> Records] : n \in 0..MaxLen} : DistinctValues(d)}

VARIABLES
    nkeys,              \* len(config["keys"])
    keys,               \* config["keys"], in file order: the items the loop has read
    common_exclusions,  \* settings["common_exclusions"]
    pc,                 \* where main is
    ki,                 \* index of the key main's loop is at
    results,            \* results[k]: the list get_common_values returned for key k
    data,               \* what the service holds for the key being harvested
    candidates,         \* get_common_values: candidates
    found,              \* get_common_values: found
    page,               \* get_common_values: page
    requests,           \* pages requested by the current call, in order
    requestedKeys,      \* keys for which a request was ever issued
    inflight,           \* requests sent and not yet answered
    error,              \* the uncaught exception that ended the run, if any
    diag,               \* log records of the call in progress (and of main's exit)
    output,             \* lines printed under --no-update
    db                  \* database operations performed, in order

vars == <<nkeys, keys, common_exclusions, pc, ki, results, data, candidates,
          found, page, requests, requestedKeys, inflight, error, diag, output, db>>

\* ---------------------------------------------------------------- strings
RECURSIVE LStrip(_)
LStrip(s) == IF s # <<>> /\ Head(s) \in Whitespace THEN LStrip(Tail(s)) ELSE s

RECURSIVE RStrip(_)
RStrip(s) == IF s # <<>> /\ s[Len(s)] \in Whitespace
             THEN RStrip(SubSeq(s, 1, Len(s) - 1)) ELSE s

Strip(s) == RStrip(LStrip(s))

Contains(s, c) == \E i \in 1..Len(s) : s[i] = c

\* ---------------------------------------------------------------- get_common_values
HasMinCount(val) == val.min_count # {}
MinCountOf(val) == CHOOSE m \in val.min_count : TRUE

min_count == MinCountOf(keys[ki])

AllExcludeOf(k) == common_exclusions \cup keys[k].exclusions
all_exclude == AllExcludeOf(ki)

\* check_include without its count test
CheckResult_NoThreshold(x, mc, excl) ==
    IF Len(Strip(x.value)) = 0 \/ Contains(x.value, ";") THEN "shape"
    ELSE IF x.value \in excl THEN "excluded"
    ELSE "include"

\* check_include with the exclusion test before the shape test
CheckResult_ExclusionFirst(x, mc, excl) ==
    IF x.count < mc THEN "below"
    ELSE IF x.value \in excl THEN "excluded"
    ELSE IF Len(Strip(x.value)) = 0 \/ Contains(x.value, ";") THEN "shape"
    ELSE "include"

\* check_include, as the check that decides: the first failing one.
CheckResult(x, mc, excl) ==
    IF x.count < mc THEN "below"
    ELSE IF Len(Strip(x.value)) = 0 \/ Contains(x.value, ";") THEN "shape"
    ELSE IF x.value \in excl THEN "excluded"
    ELSE "include"

check_include(x, mc, excl) == CheckResult(x, mc, excl) = "include"

\* check_include without found.add(tag)
FoundAfter_Forgets(f, pd, mc, excl) == f

\* found after check_include ran over every record of a page
FoundAfter(f, pd, mc, excl) ==
    f \cup {pd[i].value : i \in {j \in 1..Len(pd) : CheckResult(pd[j], mc, excl) = "excluded"}}

\* [x["value"] for x in page_data if check_include(x)]
RECURSIVE Included(_, _, _)
Included(pd, mc, excl) ==
    IF pd = <<>> THEN <<>>
    ELSE (IF check_include(Head(pd), mc, excl) THEN <<Head(pd).value>> ELSE <<>>)
         \o Included(Tail(pd), mc, excl)

\* candidates = [...] in place of candidates += [...]
Extend_Replace(cands, pd, mc, excl) == Included(pd, mc, excl)

\* candidates += [...]
Extend(cands, pd, mc, excl) == cands \o Included(pd, mc, excl)

\* The service's answer to page p with rp records a page.
PageOf(d, rp, p) ==
    IF (p - 1) * rp >= Len(d) THEN <<>>
    ELSE SubSeq(d, (p - 1) * rp + 1, IF p * rp < Len(d) THEN p * rp ELSE Len(d))

page_data == PageOf(data, PageSize, page)

\* the break condition without the count test
ShouldBreak_OnlyEmpty == Len(page_data) = 0

\* the break condition with max_page read as a limit on the page index
ShouldBreak_PageLimit ==
    IF Len(page_data) = 0 \/ page > 1 THEN TRUE ELSE page_data[1].count < min_count

\* the loop's break condition
ShouldBreak == IF Len(page_data) = 0 THEN TRUE ELSE page_data[1].count < min_count

NoError == "none"

\* the failure caught and the page requested again
OnRequestFailure_Retry == "fetch"

\* What an exception of urlopen or json.loads does to main: nothing catches it.
OnRequestFailure == "aborted"

\* an empty list ends the run
AfterReturn_EmptyFatal(cands) == IF cands = <<>> THEN "exited" ELSE "loop"

\* Where main goes when get_common_values returned cands.
AfterReturn(cands) == "loop"

\* The log records of lines 49-55.
ReturnDiag(k, cands, notfound) ==
    (IF cands = <<>>
     THEN {[level |-> "critical", key |-> k, kind |-> "novalues", n |-> 0, vals |-> {}]}
     ELSE {[level |-> "info", key |-> k, kind |-> "found", n |-> Len(cands), vals |-> {}]})
    \cup
    (IF notfound # {}
     THEN {[level |-> "info", key |-> k, kind |-> "notfound", n |-> 0, vals |-> notfound]}
     ELSE {})

\* ---------------------------------------------------------------- main
\* the loop leaves after its first key
LoopDone_Early == ki > 1

\* the for loop of line 114 is past its last key
LoopDone == ki > nkeys

\* The configuration file is fixed before the run; the model draws each
\* key's entry when the loop of line 114 reads it, and opts.no_update when
\* line 118 reads it.
Init ==
    /\ nkeys \in 0..MaxKeys
    /\ keys = <<>>
    /\ common_exclusions \in CommonExclusionSets
    /\ pc = "config"
    /\ ki = 1
    /\ results = <<>>
    /\ data = <<>>
    /\ candidates = <<>>
    /\ found = {}
    /\ page = 1
    /\ requests = <<>>
    /\ requestedKeys = {}
    /\ inflight = {}
    /\ error = NoError
    /\ diag = {}
    /\ output = <<>>
    /\ db = <<>>

\* lines 99-102: no keys is critical and exits
NoKeys ==
    /\ pc = "config"
    /\ nkeys = 0
    /\ diag' = {[level |-> "critical", key |-> 0, kind |-> "nokeys", n |-> 0, vals |-> {}]}
    /\ pc' = "exited"
    /\ UNCHANGED <<nkeys, keys, common_exclusions, ki, results, data, candidates,
                   found, page, requests, requestedKeys, inflight, error, output, db>>

\* lines 99-112: keys are there, the database options are read
ConfigRead ==
    /\ pc = "config"
    /\ nkeys # 0
    /\ pc' = "loop"
    /\ UNCHANGED <<nkeys, keys, common_exclusions, ki, results, data, candidates,
                   found, page, requests, requestedKeys, inflight, error, diag, output, db>>

\* line 116: val["min_count"] of a key that has none raises KeyError
MissingMinCount ==
    /\ pc = "loop"
    /\ ~LoopDone
    /\ \E val \in KeySpecs :
        /\ ~HasMinCount(val)
        /\ keys' = Append(keys, val)
    /\ error' = "KeyError"
    /\ pc' = "aborted"
    /\ UNCHANGED <<nkeys, common_exclusions, ki, results, data, candidates,
                   found, page, requests, requestedKeys, inflight, diag, output, db>>

\* lines 114-116, 19-24: the call of get_common_values for the next key
StartKey ==
    /\ pc = "loop"
    /\ ~LoopDone
    /\ \E val \in KeySpecs :
        /\ HasMinCount(val)
        /\ keys' = Append(keys, val)
    /\ data' \in ServiceData
    /\ candidates' = <<>>
    /\ found' = {}
    /\ page' = 1
    /\ requests' = <<>>
    /\ diag' = {}
    /\ pc' = "fetch"
    /\ UNCHANGED <<nkeys, common_exclusions, ki, results, requestedKeys,
                   inflight, error, output, db>>

\* lines 38-42: the request of the next page
Request ==
    /\ pc = "fetch"
    /\ requests' = Append(requests, page)
    /\ requestedKeys' = requestedKeys \cup {ki}
    /\ inflight' = inflight \cup {<<ki, page>>}
    /\ pc' = "wait"
    /\ UNCHANGED <<nkeys, keys, common_exclusions, ki, results, data, candidates,
                   found, page, error, diag, output, db>>

\* lines 42-43: the request or the decoding of its answer fails
RequestFails ==
    /\ pc = "wait"
    /\ inflight' = {}
    /\ error' = "ServiceUnavailable"
    /\ pc' = OnRequestFailure
    /\ UNCHANGED <<nkeys, keys, common_exclusions, ki, results, data, candidates,
                   found, page, requests, requestedKeys, diag, output, db>>

\* lines 43-47: a page that does not end the loop is filtered into candidates
PageYielded ==
    /\ pc = "wait"
    /\ ~ShouldBreak
    /\ inflight' = {}
    /\ candidates' = Extend(candidates, page_data, min_count, all_exclude)
    /\ found' = FoundAfter(found, page_data, min_count, all_exclude)
    /\ page' = page + 1
    /\ pc' = "fetch"
    /\ UNCHANGED <<nkeys, keys, common_exclusions, ki, results, data, requests,
                   requestedKeys, error, diag, output, db>>

\* lines 45-46, 49-57: the page ends the loop; the call logs and returns
PageEnds ==
    /\ pc = "wait"
    /\ ShouldBreak
    /\ inflight' = {}
    /\ diag' = ReturnDiag(ki, candidates, all_exclude \ found)
    /\ pc' = "returned"
    /\ UNCHANGED <<nkeys, keys, common_exclusions, ki, results, data, candidates, found,
                   page, requests, requestedKeys, error, output, db>>

\* line 116: results[key] takes the returned list, the call's locals are gone
\* and the loop moves on
StoreResult ==
    /\ pc = "returned"
    /\ results' = Append(results, candidates)
    /\ ki' = ki + 1
    /\ pc' = AfterReturn(candidates)
    /\ data' = <<>>
    /\ candidates' = <<>>
    /\ found' = {}
    /\ page' = 1
    /\ requests' = <<>>
    /\ diag' = {}
    /\ UNCHANGED <<nkeys, keys, common_exclusions, requestedKeys, inflight, error,
                   output, db>>

\* lines 118-121: --no-update prints the lists
PrintResults ==
    /\ pc = "loop"
    /\ LoopDone
    /\ output' = [k \in 1..Len(results) |-> <<k, results[k]>>]
    /\ pc' = "finished"
    /\ UNCHANGED <<nkeys, keys, common_exclusions, ki, results, data, candidates,
                   found, page, requests, requestedKeys, inflight, error, diag, db>>

\* line 123: without --no-update, the connection
Connect ==
    /\ pc = "loop"
    /\ LoopDone
    /\ db' = <<<<"connect">>>>
    /\ pc' = "connected"
    /\ UNCHANGED <<nkeys, keys, common_exclusions, ki, results, data, candidates,
                   found, page, requests, requestedKeys, inflight, error, diag, output>>

\* the rows execute_values inserts for key k, in the order of the list
InsertRows(k, val) == [i \in 1..Len(val) |-> <<"insert", k, val[i]>>]

RECURSIVE AllInserts(_)
AllInserts(k) ==
    IF k > Len(results) THEN <<>> ELSE InsertRows(k, results[k]) \o AllInserts(k + 1)

\* lines 127-145: the table is replaced, filled, granted and committed
WriteTable ==
    /\ pc = "connected"
    /\ db' = db \o <<<<"drop">>, <<"create">>>> \o AllInserts(1)
                \o <<<<"grant">>, <<"commit">>, <<"close">>>>
    /\ pc' = "finished"
    /\ UNCHANGED <<nkeys, keys, common_exclusions, ki, results, data, candidates,
                   found, page, requests, requestedKeys, inflight, error, diag, output>>

Next ==
    \/ NoKeys
    \/ ConfigRead
    \/ MissingMinCount
    \/ StartKey
    \/ Request
    \/ RequestFails
    \/ PageYielded
    \/ PageEnds
    \/ StoreResult
    \/ PrintResults
    \/ Connect
    \/ WriteTable

Spec == Init /\ [][Next]_vars

\* The process runs on while it can; a request is answered or fails.
LiveSpec == Spec /\ WF_vars(Next)

\* ---------------------------------------------------------------- properties
InCall == pc \in {"fetch", "wait", "returned"}

\* the value-shape rule in the words of the specification
ShapeOk(v) == Len(Strip(v)) # 0 /\ ~Contains(v, ";")

\* records of the pages before page p, as the service holds them
RecordsBefore(p) ==
    SubSeq(data, 1, IF (p - 1) * PageSize < Len(data) THEN (p - 1) * PageSize ELSE Len(data))

\* page p is empty or begins below the key's threshold
IsStopPage(p) ==
    LET pd == PageOf(data, PageSize, p)
    IN  IF pd = <<>> THEN TRUE ELSE pd[1].count < MinCountOf(keys[ki])

\* the first such page; the page after the last record is empty
StopPage == CHOOSE p \in 1..(MaxLen + 1) :
                IsStopPage(p) /\ \A q \in 1..(p - 1) : ~IsStopPage(q)

UpTo(n) == [i \in 1..n |-> i]

\* C1: at every point of a call, and in the lists main keeps, every candidate
\* was reported with a count of at least min_count, is in neither exclusion
\* list, and is non-blank without ';'.
C1_CandidatesValid ==
    /\ InCall =>
         \A i \in 1..Len(candidates) :
            /\ \E j \in 1..Len(data) :
                  data[j].value = candidates[i] /\ data[j].count >= MinCountOf(keys[ki])
            /\ candidates[i] \notin common_exclusions \cup keys[ki].exclusions
            /\ ShapeOk(candidates[i])
    /\ \A k \in 1..Len(results) : \A v \in Range(results[k]) :
            v \notin common_exclusions \cup keys[k].exclusions /\ ShapeOk(v)

\* a call returned candidates although the service also listed a record below
\* the threshold, an excluded one and an ill-shaped one at or above it
C1_Witness ==
    /\ pc = "returned"
    /\ candidates # <<>>
    /\ \E j \in 1..Len(data) : data[j].count < min_count
    /\ \E j \in 1..Len(data) :
          data[j].count >= min_count /\ (data[j].value \in all_exclude \/ ~ShapeOk(data[j].value))

\* C2: the pages requested for a key are 1, 2, ... in order, each once, never
\* past the first page n that is empty or begins below min_count; a call that
\* returns requested exactly 1..n, and nothing of page n or later reached
\* candidates or found.
C2_PagesRequested ==
    (InCall \/ (pc = "aborted" /\ error = "ServiceUnavailable")) =>
        /\ requests = UpTo(Len(requests))
        /\ Len(requests) <= StopPage
        /\ Len(requests) = (IF pc = "fetch" THEN page - 1 ELSE page)
        /\ pc = "returned" =>
              /\ requests = UpTo(StopPage)
              /\ Range(candidates) \cup found
                    \subseteq {r.value : r \in Range(RecordsBefore(StopPage))}

\* a call returned after two pages although the service held a third record
C2_Witness ==
    /\ pc = "returned"
    /\ requests = <<1, 2>>
    /\ Len(data) > PageSize
    /\ candidates # <<>>

C3_Sorted == \A i \in 1..(Len(data) - 1) : data[i].count >= data[i + 1].count

\* C3 as stated: with the records in non-increasing count order, every
\* excluded value listed with count >= min_count is, when the call returns,
\* absent from candidates and present in found.
C3_Original ==
    (pc = "returned" /\ C3_Sorted) =>
        \A j \in 1..Len(data) :
            (data[j].value \in all_exclude /\ data[j].count >= min_count)
                => (data[j].value \notin Range(candidates) /\ data[j].value \in found)

\* C3 amended: the same for every such value that also passes the shape rule.
C3_Amended ==
    (pc = "returned" /\ C3_Sorted) =>
        \A j \in 1..Len(data) :
            (data[j].value \in all_exclude /\ data[j].count >= min_count
                /\ ShapeOk(data[j].value))
                => (data[j].value \notin Range(candidates) /\ data[j].value \in found)

\* a sorted listing whose second page holds a well-shaped excluded value
C3_Witness ==
    /\ pc = "returned"
    /\ C3_Sorted
    /\ Len(data) > PageSize
    /\ data[Len(data)].value \in all_exclude
    /\ data[Len(data)].count >= min_count
    /\ ShapeOk(data[Len(data)].value)

\* the records a call accepts, in the words of the specification
C4_Filter(recs) ==
    LET Accept(x) == /\ x.count >= MinCountOf(keys[ki])
                     /\ ShapeOk(x.value)
                     /\ x.value \notin common_exclusions \cup keys[ki].exclusions
        sel == SelectSeq(recs, Accept)
    IN  [i \in 1..Len(sel) |-> sel[i].value]

\* C4: candidates is always the accepted values of the pages yielded so far,
\* in page order and arrival order; the list a call returns is that of pages
\* 1..n-1, and main stores exactly that list.
C4_CandidateOrder ==
    /\ [](InCall => candidates = C4_Filter(RecordsBefore(page)))
    /\ [](pc = "returned" => candidates = C4_Filter(RecordsBefore(StopPage)))
    /\ [][pc = "returned" => results' = Append(results, candidates)]_vars

\* two pages each gave a candidate and a record between them was rejected
C4_Witness ==
    /\ pc = "returned"
    /\ Len(data) = PageSize + 1
    /\ Len(candidates) = 2
    /\ data[1].value = candidates[1]
    /\ data[PageSize + 1].value = candidates[2]

\* C5: once a page request has failed the run is over: it is not requested
\* again, the key gets no list, nothing more is requested, nothing is printed
\* and no database operation is ever performed.
C5_FailureAborts ==
    error = "ServiceUnavailable" =>
        /\ pc = "aborted"
        /\ ~ENABLED Next
        /\ inflight = {}
        /\ requests = UpTo(page)
        /\ requestedKeys = 1..ki
        /\ Len(results) = ki - 1
        /\ output = <<>>
        /\ db = <<>>

\* the second page of the second key failed after candidates were gathered
C5_Witness ==
    /\ error = "ServiceUnavailable"
    /\ ki = 2
    /\ page = 2
    /\ candidates # <<>>
    /\ results[1] # <<>>

\* no keys, or a key read without its min_count
ConfigurationError ==
    nkeys = 0 \/ \E k \in 1..Len(keys) : ~HasMinCount(keys[k])

\* C6 as stated: in a run whose configuration has no keys or a key without
\* min_count, no page is ever requested.
C6_Original == ConfigurationError => requestedKeys = {}

\* C7: keys are harvested one at a time in configuration order: a request is
\* for the key the loop is at, every earlier key has its list and no later key
\* was ever requested, at most one request is in flight, the stored lists
\* never change, and printing or the database come after every key's list.
C7_Sequential ==
    /\ [](/\ Cardinality(inflight) <= 1
          /\ inflight \subseteq {<<ki, page>>}
          /\ inflight # {} => pc = "wait"
          /\ InCall => Len(results) = ki - 1
          /\ requestedKeys \in {1..(ki - 1), 1..ki}
          /\ ki \notin requestedKeys => Len(results) = ki - 1
          /\ (output # <<>> \/ db # <<>>) =>
                /\ Len(results) = nkeys
                /\ requestedKeys = 1..nkeys
                /\ inflight = {})
    /\ [][/\ Len(results') >= Len(results)
          /\ \A k \in 1..Len(results) : results'[k] = results[k]]_vars

\* the second key has a request in flight and the first key's list is there
C7_Witness ==
    /\ inflight = {<<2, 2>>}
    /\ Len(results) = 1
    /\ results[1] # <<>>

C8_Critical(k) ==
    [level |-> "critical", key |-> k, kind |-> "novalues", n |-> 0, vals |-> {}]

\* C8: a call that accepted nothing returns the empty list and logs the
\* critical record for its key (and only such a call does); when every record
\* is below the threshold that happens after page 1; main stores the empty
\* list and goes on to the next key with no error.
C8_EmptyRecoverable ==
    /\ [](pc = "returned" =>
            /\ (candidates = <<>>) <=> (C8_Critical(ki) \in diag)
            /\ (\A j \in 1..Len(data) : data[j].count < min_count) =>
                    (candidates = <<>> /\ requests = <<1>>)
            /\ error = NoError)
    /\ [][(pc = "returned" /\ candidates = <<>>) =>
            /\ results' = Append(results, <<>>)
            /\ ki' = ki + 1
            /\ pc' = "loop"
            /\ error' = NoError]_vars

\* the first key's list is empty and the second key was harvested after it
C8_Witness ==
    /\ Len(results) = 2
    /\ results[1] = <<>>
    /\ results[2] # <<>>

\* excluded values seen in a yielded page at or above the threshold, well shaped
C9_Encountered ==
    {v \in all_exclude :
        \E j \in 1..Len(RecordsBefore(page)) :
            data[j].value = v /\ data[j].count >= min_count /\ ShapeOk(v)}

C9_NotFound(nf) ==
    [level |-> "info", key |-> ki, kind |-> "notfound", n |-> 0, vals |-> nf]

\* C9: found is exactly the excluded values that occurred in a yielded page
\* with count >= min_count and a valid shape; it is within the exclusion
\* universe and disjoint from candidates; on return all_exclude - found holds
\* every exclusion not so encountered and is logged, when not empty, as an
\* info record with no error.
C9_FoundExclusions ==
    InCall =>
        /\ found = C9_Encountered
        /\ found \subseteq all_exclude
        /\ found \cap Range(candidates) = {}
        /\ pc = "returned" =>
              LET nf == all_exclude \ found
              IN  /\ \A v \in all_exclude : v \notin C9_Encountered => v \in nf
                  /\ (nf # {}) <=> (C9_NotFound(nf) \in diag)
                  /\ \A r \in diag : r.kind = "notfound" => r = C9_NotFound(nf)
                  /\ error = NoError

\* one exclusion was found, one was listed above the threshold but ill-shaped
\* and so stays in the not-found report
C9_Witness ==
    /\ pc = "returned"
    /\ found = {No}
    /\ all_exclude = {No, Semi}
    /\ \E j \in 1..Len(RecordsBefore(page)) :
          data[j].value = Semi /\ data[j].count >= min_count
    /\ C9_NotFound({Semi}) \in diag

\* C10: every call that starts ends, by returning or by a failed request; it
\* leaves its loop only at a page that is empty or begins below min_count, or
\* by that failure, whatever the page index.
C10_Terminates ==
    /\ \A k \in 1..MaxKeys :
          (pc = "fetch" /\ ki = k) ~> (pc = "aborted" \/ Len(results) >= k)
    /\ [][(pc = "wait" /\ pc' # "wait") =>
            \/ pc' = "fetch" /\ ~IsStopPage(page) /\ page' = page + 1
            \/ pc' = "returned" /\ IsStopPage(page)
            \/ pc' = "aborted" /\ error' = "ServiceUnavailable"]_vars

\* a call returned at its third page
C10_Witness ==
    /\ pc = "returned"
    /\ requests = <<1, 2, 3>>

====
